---- MODULE Spec2Model ----
(***************************************************************************)
(* Creative Production Engine: the JSON recovery pipeline of               *)
(* core/engine/views.py (safe_json_loads and its stages) and the kit       *)
(* retention of generate_kit.                                              *)
(*                                                                         *)
(* Text is a sequence of one-character strings over the alphabet Char.     *)
(* Positions are 1-based (Python index + 1); "not found" (-1) is 0.        *)
(* Python values are tagged tuples:                                        *)
(*   <<"None">>  <<"bool", b>>  <<"str", text>>  <<"list", seq>>           *)
(*   <<"tuple", seq>>  <<"set", set>>  <<"dict", [key -> value]>>          *)
(* and the numbers, whose equality is Python's == on the numbers the       *)
(* model can write (a mantissa below 2^31, no sign, no fraction):          *)
(*   <<"num", m, e>>    the exact number m * 10^e, m without trailing zero *)
(*                      (an int, or a float that holds it exactly)         *)
(*   <<"float", m, e>>  the float nearest to m * 10^e, which is not it     *)
(*   <<"inf">>          the float inf                                      *)
(***************************************************************************)
EXTENDS Integers, Sequences, FiniteSets, TLC

VARIABLES
    kind,       \* how the input was built: "plain", "cut" or "time"
    prose,      \* text before the document
    doc,        \* the document text as sent by the model
    trailing,   \* text after the document
    intended,   \* the well-formed document the model meant to send
    raw,        \* safe_json_loads' argument: prose \o doc \o trailing
    pc,         \* position in safe_json_loads
    raw0,       \* extract_first_json_object(raw)
    fixed1,     \* repair_json(raw0)
    fixed2,     \* repair_json_times(fixed1)
    fixed3,     \* fix_single_quotes_in_list(fixed2)
    fixed4,     \* repair_multiline_value_string(fixed3)
    exc,        \* the exception e caught at the last strict parse
    litText,    \* the text handed to ast.literal_eval, <<>> before that
    ret,        \* the returned triple <<value, candidate, error>>
    trace,      \* history: the stages executed, in order, with their outcome
    store,      \* the ProductionKit table: rows [id, created_at]
    nextId,     \* the next primary key the table assigns
    rpc,        \* each request's position in generate_kit's persistence block
    created_at, \* each request's auto_now_add time, 0 while it holds none
    keep,       \* each request's ids_to_keep
    made,       \* history: every row ever inserted
    raised      \* history: a query of some request raised

-----------------------------------------------------------------------------
(* Characters *)

Digit == {"0", "1", "2", "3", "4", "5", "6", "7", "8", "9"}

Letter == {"a", "e", "f", "l", "n", "r", "s", "t", "u", "v"}

Space == {" ", "\n"}

Punct == {"{", "}", "[", "]", ":", ",", "\"", "'", "\\"}

Char == Digit \cup Letter \cup Space \cup Punct

\* re's \w
IsWord(c) == c \in Digit \cup Letter

\* re's \s, str.strip()'s and the JSON decoder's whitespace
IsSpace(c) == c \in Space

None == <<"None">>

-----------------------------------------------------------------------------
(* str methods *)

RECURSIVE FindFrom(_, _, _)
FindFrom(s, c, i) ==
    IF i > Len(s) THEN 0
    ELSE IF s[i] = c THEN i
    ELSE FindFrom(s, c, i + 1)

\* str.find(c): the first position of c, 0 when absent
Find(s, c) == FindFrom(s, c, 1)

RECURSIVE RFindFrom(_, _, _)
RFindFrom(s, c, i) ==
    IF i < 1 THEN 0
    ELSE IF s[i] = c THEN i
    ELSE RFindFrom(s, c, i - 1)

\* str.rfind(c)
RFind(s, c) == RFindFrom(s, c, Len(s))

\* str.count(c)
Count(s, c) == Cardinality({i \in 1..Len(s) : s[i] = c})

\* c * n
Rep(c, n) == [i \in 1..n |-> c]

RECURSIVE SkipWs(_, _)
\* the first position >= i that holds no whitespace (Len(s) + 1 at the end)
SkipWs(s, i) ==
    IF i <= Len(s) /\ IsSpace(s[i]) THEN SkipWs(s, i + 1) ELSE i

RECURSIVE SkipWsBack(_, _)
SkipWsBack(s, i) ==
    IF i >= 1 /\ IsSpace(s[i]) THEN SkipWsBack(s, i - 1) ELSE i

\* str.strip()
Strip(s) == SubSeq(s, SkipWs(s, 1), SkipWsBack(s, Len(s)))

\* s[i:] with a 1-based i
Tail_(s, i) == SubSeq(s, i, Len(s))

\* s.startswith(p, i)
StartsAt(s, p, i) ==
    /\ i + Len(p) - 1 <= Len(s)
    /\ \A k \in 1..Len(p) : s[i + k - 1] = p[k]

-----------------------------------------------------------------------------
(* repair_json *)

\* repair_json closing the braces before the brackets
RepairBracesFirst(text) ==
    IF text = <<>> THEN text
    ELSE LET start == Find(text, "{") IN
      IF start = 0 THEN text
      ELSE
        LET r1 == Strip(Tail_(text, start))
            open_c == Count(r1, "{")
            close_c == Count(r1, "}")
            r2 == IF close_c < open_c
                  THEN r1 \o Rep("}", open_c - close_c) ELSE r1
            open_sq == Count(r2, "[")
            close_sq == Count(r2, "]")
            r3 == IF close_sq < open_sq
                  THEN r2 \o Rep("]", open_sq - close_sq) ELSE r2
            last == RFind(r3, "}")
        IN IF last # 0 THEN SubSeq(r3, 1, last) ELSE r3

repair_json(text) ==
    IF text = <<>> THEN text
    ELSE LET start == Find(text, "{") IN
      IF start = 0 THEN text
      ELSE
        LET r1 == Strip(Tail_(text, start))
            open_sq == Count(r1, "[")
            close_sq == Count(r1, "]")
            r2 == IF close_sq < open_sq
                  THEN r1 \o Rep("]", open_sq - close_sq) ELSE r1
            open_c == Count(r2, "{")
            close_c == Count(r2, "}")
            r3 == IF close_c < open_c
                  THEN r2 \o Rep("}", open_c - close_c) ELSE r2
            last == RFind(r3, "}")
        IN IF last # 0 THEN SubSeq(r3, 1, last) ELSE r3

-----------------------------------------------------------------------------
\* repair_json_times: _TIME_TOKEN_RE = (:\s*)(\d{1,2}:\d{2})(\s*[,}\]])

IsDigitAt(s, i) == i <= Len(s) /\ s[i] \in Digit

\* \d{n}:\d{2}\s*[,}\]] matched at j: the position of the terminator, or 0
TimeTokenAt(s, j, n) ==
    IF /\ \A k \in 0..(n - 1) : IsDigitAt(s, j + k)
       /\ j + n <= Len(s) /\ s[j + n] = ":"
       /\ IsDigitAt(s, j + n + 1) /\ IsDigitAt(s, j + n + 2)
    THEN LET t == SkipWs(s, j + n + 3) IN
         IF t <= Len(s) /\ s[t] \in {",", "}", "]"} THEN t ELSE 0
    ELSE 0

\* the regex matched at i: [g2 |-> start of group 2, n |-> its hour digits,
\* end |-> last position of the match], end = 0 when it does not match
TimeMatch(s, i) ==
    IF s[i] # ":" THEN [g2 |-> 0, n |-> 0, end |-> 0]
    ELSE LET j == SkipWs(s, i + 1)
             two == TimeTokenAt(s, j, 2)
             one == TimeTokenAt(s, j, 1)
         IN IF two # 0 THEN [g2 |-> j, n |-> 2, end |-> two]
            ELSE [g2 |-> j, n |-> 1, end |-> one]

RECURSIVE TimeSubWide(_, _)
\* TimeSub closing the quote only at the terminator: the whitespace after
\* the token ends up inside the string
TimeSubWide(s, i) ==
    IF i > Len(s) THEN <<>>
    ELSE LET m == TimeMatch(s, i) IN
      IF m.end = 0 THEN <<s[i]>> \o TimeSubWide(s, i + 1)
      ELSE SubSeq(s, i, m.g2 - 1) \o <<"\"">>
             \o SubSeq(s, m.g2, m.end - 1) \o <<"\"">>
             \o <<s[m.end]>>
             \o TimeSubWide(s, m.end + 1)

RECURSIVE TimeSub(_, _)
\* _TIME_TOKEN_RE.sub(repl, s) from position i on
TimeSub(s, i) ==
    IF i > Len(s) THEN <<>>
    ELSE LET m == TimeMatch(s, i) IN
      IF m.end = 0 THEN <<s[i]>> \o TimeSub(s, i + 1)
      ELSE LET g2end == m.g2 + m.n + 2 IN
           SubSeq(s, i, m.g2 - 1) \o <<"\"">>
             \o SubSeq(s, m.g2, g2end) \o <<"\"">>
             \o SubSeq(s, g2end + 1, m.end)
             \o TimeSub(s, m.end + 1)

repair_json_times(text) ==
    IF text = <<>> THEN text ELSE TimeSub(text, 1)

-----------------------------------------------------------------------------
\* fix_single_quotes_in_list:
\* _SINGLE_QUOTED_STRING_RE = '((?:[^'\\]|\\.|(?<=\w)'(?=\w))*)'

\* (?<=\w)'(?=\w) at p
WordApostrophe(s, p) ==
    /\ s[p] = "'"
    /\ p > 1 /\ IsWord(s[p - 1])
    /\ p < Len(s) /\ IsWord(s[p + 1])

RECURSIVE QuoteClose(_, _, _)
\* The group's items are consumed greedily from p; the closing quote is the
\* last item boundary that holds a quote (the regex backtracks to it).
\* best is the last such boundary passed; 0 when there is none.
QuoteClose(s, p, best) ==
    IF p > Len(s) THEN best
    ELSE IF s[p] = "'" THEN
        IF WordApostrophe(s, p) THEN QuoteClose(s, p + 1, p) ELSE p
    ELSE IF s[p] = "\\" THEN
        IF p + 1 <= Len(s) /\ s[p + 1] # "\n"
        THEN QuoteClose(s, p + 2, best) ELSE best
    ELSE QuoteClose(s, p + 1, best)

RECURSIVE UnescapeDq(_, _)
\* inner.replace('\\"', '"')
UnescapeDq(s, i) ==
    IF i > Len(s) THEN <<>>
    ELSE IF s[i] = "\\" /\ i + 1 <= Len(s) /\ s[i + 1] = "\""
         THEN <<"\"">> \o UnescapeDq(s, i + 2)
         ELSE <<s[i]>> \o UnescapeDq(s, i + 1)

RECURSIVE EscapeDq(_, _)
\* inner.replace('"', '\\"')
EscapeDq(s, i) ==
    IF i > Len(s) THEN <<>>
    ELSE IF s[i] = "\"" THEN <<"\\", "\"">> \o EscapeDq(s, i + 1)
         ELSE <<s[i]>> \o EscapeDq(s, i + 1)

QuoteRepl(inner) == <<"\"">> \o EscapeDq(UnescapeDq(inner, 1), 1) \o <<"\"">>

RECURSIVE QuoteSub(_, _)
\* _SINGLE_QUOTED_STRING_RE.sub(repl, s) from position i on
QuoteSub(s, i) ==
    IF i > Len(s) THEN <<>>
    ELSE LET q == IF s[i] = "'" THEN QuoteClose(s, i + 1, 0) ELSE 0 IN
      IF q = 0 THEN <<s[i]>> \o QuoteSub(s, i + 1)
      ELSE QuoteRepl(SubSeq(s, i + 1, q - 1)) \o QuoteSub(s, q + 1)

fix_single_quotes_in_list(text) ==
    IF text = <<>> THEN text ELSE QuoteSub(text, 1)

-----------------------------------------------------------------------------
\* repair_multiline_value_string:
\* _VALUE_STRING_RE = ("value"\s*:\s*)"(.*?)"\s*(?=\}\s*$), re.DOTALL

ValueKey == <<"\"", "v", "a", "l", "u", "e", "\"">>

\* "value"\s*:\s*" matched at i: the position of the opening quote, or 0
ValuePrefix(s, i) ==
    IF ~StartsAt(s, ValueKey, i) THEN 0
    ELSE LET j == SkipWs(s, i + Len(ValueKey)) IN
      IF ~(j <= Len(s) /\ s[j] = ":") THEN 0
      ELSE LET k == SkipWs(s, j + 1) IN
        IF k <= Len(s) /\ s[k] = "\"" THEN k ELSE 0

\* "\s*(?=\}\s*$) matched at q: the position of the brace, or 0
ValueTail(s, q) ==
    IF s[q] # "\"" THEN 0
    ELSE LET m == SkipWs(s, q + 1) IN
      IF m <= Len(s) /\ s[m] = "}" /\ SkipWs(s, m + 1) > Len(s) THEN m ELSE 0

RECURSIVE ValueClose(_, _)
\* (.*?) is lazy: the first closing quote from q on that the tail accepts
ValueClose(s, q) ==
    IF q > Len(s) THEN 0
    ELSE IF ValueTail(s, q) # 0 THEN q
    ELSE ValueClose(s, q + 1)

RECURSIVE DumpsBody(_, _)
\* json.dumps(inner) without its surrounding quotes
DumpsBody(s, i) ==
    IF i > Len(s) THEN <<>>
    ELSE (CASE s[i] = "\"" -> <<"\\", "\"">>
            [] s[i] = "\\" -> <<"\\", "\\">>
            [] s[i] = "\n" -> <<"\\", "n">>
            [] OTHER -> <<s[i]>>) \o DumpsBody(s, i + 1)

\* json.dumps of a str
json_dumps_str(inner) == <<"\"">> \o DumpsBody(inner, 1) \o <<"\"">>

RECURSIVE ValueSub(_, _)
\* _VALUE_STRING_RE.sub(repl, s) from position i on
ValueSub(s, i) ==
    IF i > Len(s) THEN <<>>
    ELSE LET k == ValuePrefix(s, i)
             q == IF k = 0 THEN 0 ELSE ValueClose(s, k + 1)
         IN IF q = 0 THEN <<s[i]>> \o ValueSub(s, i + 1)
            ELSE SubSeq(s, i, k - 1)
                   \o json_dumps_str(SubSeq(s, k + 1, q - 1))
                   \o ValueSub(s, ValueTail(s, q))

repair_multiline_value_string(text) ==
    IF text = <<>> THEN text ELSE ValueSub(text, 1)

-----------------------------------------------------------------------------
(* extract_first_json_object *)

RECURSIVE ExtractScanPlain(_, _, _, _, _)
\* ExtractScan counting every brace, those inside strings too
ExtractScanPlain(s, i, depth, in_str, esc) ==
    IF i > Len(s) THEN 0
    ELSE IF s[i] = "{" THEN ExtractScanPlain(s, i + 1, depth + 1, FALSE, esc)
    ELSE IF s[i] = "}" THEN
      IF depth - 1 = 0 THEN i
      ELSE ExtractScanPlain(s, i + 1, depth - 1, FALSE, esc)
    ELSE ExtractScanPlain(s, i + 1, depth, FALSE, esc)

RECURSIVE ExtractScan(_, _, _, _, _)
\* the for loop over s from i on: the position where depth returns to 0,
\* or 0 when it never does
ExtractScan(s, i, depth, in_str, esc) ==
    IF i > Len(s) THEN 0
    ELSE LET ch == s[i] IN
      IF in_str THEN
        IF esc THEN ExtractScan(s, i + 1, depth, TRUE, FALSE)
        ELSE IF ch = "\\" THEN ExtractScan(s, i + 1, depth, TRUE, TRUE)
        ELSE IF ch = "\"" THEN ExtractScan(s, i + 1, depth, FALSE, FALSE)
        ELSE ExtractScan(s, i + 1, depth, TRUE, FALSE)
      ELSE IF ch = "\"" THEN ExtractScan(s, i + 1, depth, TRUE, esc)
      ELSE IF ch = "{" THEN ExtractScan(s, i + 1, depth + 1, FALSE, esc)
      ELSE IF ch = "}" THEN
        IF depth - 1 = 0 THEN i
        ELSE ExtractScan(s, i + 1, depth - 1, FALSE, esc)
      ELSE ExtractScan(s, i + 1, depth, FALSE, esc)

\* extract_first_json_object returning its argument
ExtractNothing(text) == text

\* extract_first_json_object without the scan for the matching brace
ExtractToEnd(text) ==
    IF text = <<>> THEN text
    ELSE LET start == Find(text, "{") IN
      IF start = 0 THEN text ELSE Tail_(text, start)

extract_first_json_object(text) ==
    IF text = <<>> THEN text
    ELSE LET start == Find(text, "{") IN
      IF start = 0 THEN text
      ELSE LET s == Tail_(text, start)
               end == ExtractScan(s, 1, 0, FALSE, FALSE)
           IN IF end # 0 THEN SubSeq(s, 1, end) ELSE s

-----------------------------------------------------------------------------
(* Characters as code points: escapes can name a character outside Char,  *)
(* which is written "\\uXXXX" as one element of a text.                   *)

Ord(c) ==
    CASE c \in Digit ->
           (CHOOSE n \in 0..9 :
              c = <<"0", "1", "2", "3", "4", "5", "6", "7", "8", "9">>[n + 1]) + 48
      [] c = "a" -> 97   [] c = "e" -> 101  [] c = "f" -> 102
      [] c = "l" -> 108  [] c = "n" -> 110  [] c = "r" -> 114
      [] c = "s" -> 115  [] c = "t" -> 116  [] c = "u" -> 117
      [] c = "v" -> 118  [] c = " " -> 32   [] c = "\n" -> 10
      [] c = "{" -> 123  [] c = "}" -> 125  [] c = "[" -> 91
      [] c = "]" -> 93   [] c = ":" -> 58   [] c = "," -> 44
      [] c = "\"" -> 34  [] c = "'" -> 39   [] c = "\\" -> 92

HexDigits == <<"0", "1", "2", "3", "4", "5", "6", "7", "8", "9",
               "a", "b", "c", "d", "e", "f">>

IsHex(c) == c \in Digit \cup {"a", "e", "f"}

HexVal(c) == (CHOOSE n \in 0..15 : HexDigits[n + 1] = c)

Hex4(n) ==
    HexDigits[((n \div 4096) % 16) + 1] \o HexDigits[((n \div 256) % 16) + 1]
      \o HexDigits[((n \div 16) % 16) + 1] \o HexDigits[(n % 16) + 1]

\* chr(n)
Chr(n) ==
    IF \E c \in Char : Ord(c) = n THEN CHOOSE c \in Char : Ord(c) = n
    ELSE "\\u" \o Hex4(n)

\* int(text, 16) of the four characters at i, or -1
Hex4At(s, i) ==
    IF i + 3 <= Len(s) /\ \A k \in 0..3 : IsHex(s[i + k])
    THEN HexVal(s[i]) * 4096 + HexVal(s[i + 1]) * 256
           + HexVal(s[i + 2]) * 16 + HexVal(s[i + 3])
    ELSE -1

RECURSIVE DigitsEnd(_, _)
\* the first position >= i that holds no digit
DigitsEnd(s, i) == IF IsDigitAt(s, i) THEN DigitsEnd(s, i + 1) ELSE i

RECURSIVE IntOf(_, _, _)
\* int(s[i..j]) of decimal digits
IntOf(s, i, j) ==
    IF i > j THEN 0
    ELSE IntOf(s, i, j - 1) * 10 + (Ord(s[j]) - 48)

RECURSIVE NumDigits(_)
\* the number of decimal digits of m >= 1
NumDigits(m) == IF m < 10 THEN 1 ELSE 1 + NumDigits(m \div 10)

RECURSIVE Pow10(_)
Pow10(k) == IF k = 0 THEN 1 ELSE 10 * Pow10(k - 1)

RECURSIVE OddPart(_)
\* m >= 1 without its factors 2
OddPart(m) == IF m % 2 = 0 THEN OddPart(m \div 2) ELSE m

\* float(m * 10^e) is inf: m * 10^e >= 2^1024 - 2^970, the decimal
\* 1.797693134862315807...e308 (m has at most 10 digits and no trailing zero)
FloatIsInf(m, e) ==
    LET d == NumDigits(m) IN
    IF d + e # 309 THEN d + e > 309
    ELSE IF d = 10 THEN m >= 1797693135
    ELSE m * Pow10(9 - d) >= 179769314

\* (2^53 - 1) \div 5^e for e = 10 .. 22; it exceeds 2^31 for e < 10 and is 0
\* for e > 22
MaxOddPart ==
    <<922337203, 184467440, 36893488, 7378697, 1475739, 295147, 59029,
      11805, 2361, 472, 94, 18, 3>>

\* a float holds the integer m * 10^e = OddPart(m) * 5^e * 2^k exactly when
\* OddPart(m) * 5^e < 2^53
FloatIsExact(m, e) ==
    \/ e < 10
    \/ e <= 22 /\ OddPart(m) <= MaxOddPart[e - 9]

RECURSIVE Num(_, _)
\* the number written as the digits of m, with the exponent e if e > 0: an
\* int when there is no exponent, a float when there is one.  10 == 10.0 ==
\* 1e1 in Python, so trailing zeros of m move to e; 1e23 # 10^23 and
\* 1e400 == 2e400 == inf
Num(m, e) ==
    IF m = 0 THEN <<"num", 0, 0>>
    ELSE IF m % 10 = 0 THEN Num(m \div 10, e + 1)
    ELSE IF FloatIsInf(m, e) THEN <<"inf">>
    ELSE IF FloatIsExact(m, e) THEN <<"num", m, e>>
    ELSE <<"float", m, e>>

-----------------------------------------------------------------------------
(* json.loads: json.decoder (JSONDecoder.decode, scanstring, JSONObject,   *)
(* JSONArray) and json.scanner.  A result is [ok, v, end, msg]: the value  *)
(* and the position after it, or the JSONDecodeError's msg and position.   *)

JOk(v, end) == [ok |-> TRUE, v |-> v, end |-> end, msg |-> ""]

JErr(msg, i) == [ok |-> FALSE, v |-> None, end |-> i, msg |-> msg]

\* dict[k] = v
DictPut(d, k, v) ==
    [x \in (DOMAIN d) \cup {k} |-> IF x = k THEN v ELSE d[x]]

RECURSIVE scanstring(_, _, _, _)
\* i is the position to read, begin the opening quote's, acc the text so far
scanstring(s, i, begin, acc) ==
    IF i > Len(s) THEN JErr("Unterminated string starting at", begin)
    ELSE IF s[i] = "\"" THEN JOk(<<"str", acc>>, i + 1)
    ELSE IF s[i] = "\n" THEN JErr("Invalid control character at", i)
    ELSE IF s[i] # "\\" THEN scanstring(s, i + 1, begin, Append(acc, s[i]))
    ELSE IF i + 1 > Len(s) THEN JErr("Unterminated string starting at", begin)
    ELSE LET esc == s[i + 1] IN
      IF esc = "u" THEN
        LET uni == Hex4At(s, i + 2) IN
        IF i + 6 > Len(s) \/ uni < 0 THEN JErr("Invalid \\uXXXX escape", i + 1)
        ELSE scanstring(s, i + 6, begin, Append(acc, Chr(uni)))
      ELSE IF esc \in {"\"", "\\"}
        THEN scanstring(s, i + 2, begin, Append(acc, esc))
      ELSE IF esc = "f" THEN scanstring(s, i + 2, begin, Append(acc, Chr(12)))
      ELSE IF esc = "n" THEN scanstring(s, i + 2, begin, Append(acc, Chr(10)))
      ELSE IF esc = "r" THEN scanstring(s, i + 2, begin, Append(acc, Chr(13)))
      ELSE IF esc = "t" THEN scanstring(s, i + 2, begin, Append(acc, Chr(9)))
      ELSE JErr("Invalid \\escape", i)

\* NUMBER_RE = (-?(?:0|[1-9]\d*))(\.\d+)?([eE][-+]?\d+)? matched at a digit
ScanNumber(s, i) ==
    LET j == IF s[i] = "0" THEN i + 1 ELSE DigitsEnd(s, i)
        hasExp == j <= Len(s) /\ s[j] = "e" /\ IsDigitAt(s, j + 1)
        k == IF hasExp THEN DigitsEnd(s, j + 1) ELSE j
        e == IF hasExp THEN IntOf(s, j + 1, k - 1) ELSE 0
    IN JOk(Num(IntOf(s, i, j - 1), e), k)

RECURSIVE scan_once(_, _)
RECURSIVE ObjectLoop(_, _, _)
RECURSIVE ObjectValue(_, _, _)
RECURSIVE ObjectNext(_, _, _, _)
RECURSIVE ArrayLoop(_, _, _)
RECURSIVE ArrayNext(_, _, _)

\* JSONObject after its "{" at i - 1
JSONObject(s, i) ==
    LET j == SkipWs(s, i) IN
    IF j <= Len(s) /\ s[j] = "}" THEN JOk(<<"dict", <<>>>>, j + 1)
    ELSE IF j <= Len(s) /\ s[j] = "\"" THEN ObjectLoop(s, j + 1, <<>>)
    ELSE JErr("Expecting property name enclosed in double quotes", j)

\* one "key": value pair from the position after the key's opening quote
ObjectLoop(s, i, d) == ObjectValue(s, d, scanstring(s, i, i - 1, <<>>))

\* the pair's ":" and value, key being the scanned key
ObjectValue(s, d, key) ==
    IF ~key.ok THEN key
    ELSE LET c == SkipWs(s, key.end) IN
      IF ~(c <= Len(s) /\ s[c] = ":") THEN JErr("Expecting ':' delimiter", c)
      ELSE ObjectNext(s, d, key.v, scan_once(s, SkipWs(s, c + 1)))

\* what follows the pair's value val: the end of the object or another pair
ObjectNext(s, d, k, val) ==
    IF ~val.ok THEN val
    ELSE LET n == SkipWs(s, val.end)
             d2 == DictPut(d, k, val.v)
         IN
      IF n > Len(s) THEN JErr("Expecting ',' delimiter", n)
      ELSE IF s[n] = "}" THEN JOk(<<"dict", d2>>, n + 1)
      ELSE IF s[n] # "," THEN JErr("Expecting ',' delimiter", n)
      ELSE LET q == SkipWs(s, n + 1) IN
        IF q <= Len(s) /\ s[q] = "\"" THEN ObjectLoop(s, q + 1, d2)
        ELSE JErr("Expecting property name enclosed in double quotes", q)

\* JSONArray after its "[" at i - 1
JSONArray(s, i) ==
    LET j == SkipWs(s, i) IN
    IF j <= Len(s) /\ s[j] = "]" THEN JOk(<<"list", <<>>>>, j + 1)
    ELSE ArrayLoop(s, j, <<>>)

\* one element at i
ArrayLoop(s, i, acc) == ArrayNext(s, acc, scan_once(s, i))

\* what follows the element val: the end of the array or another element
ArrayNext(s, acc, val) ==
    IF ~val.ok THEN val
    ELSE LET n == SkipWs(s, val.end)
             acc2 == Append(acc, val.v)
         IN
      IF n > Len(s) THEN JErr("Expecting ',' delimiter", n)
      ELSE IF s[n] = "]" THEN JOk(<<"list", acc2>>, n + 1)
      ELSE IF s[n] # "," THEN JErr("Expecting ',' delimiter", n)
      ELSE ArrayLoop(s, SkipWs(s, n + 1), acc2)

\* json.scanner's scan_once; StopIteration(idx) becomes every caller's
\* "Expecting value" at idx
scan_once(s, i) ==
    IF i > Len(s) THEN JErr("Expecting value", i)
    ELSE IF s[i] = "\"" THEN scanstring(s, i + 1, i, <<>>)
    ELSE IF s[i] = "{" THEN JSONObject(s, i + 1)
    ELSE IF s[i] = "[" THEN JSONArray(s, i + 1)
    ELSE IF StartsAt(s, <<"n", "u", "l", "l">>, i) THEN JOk(None, i + 4)
    ELSE IF StartsAt(s, <<"t", "r", "u", "e">>, i)
      THEN JOk(<<"bool", TRUE>>, i + 4)
    ELSE IF StartsAt(s, <<"f", "a", "l", "s", "e">>, i)
      THEN JOk(<<"bool", FALSE>>, i + 5)
    ELSE IF s[i] \in Digit THEN ScanNumber(s, i)
    ELSE JErr("Expecting value", i)

\* JSONDecoder.decode after raw_decode gave r: only whitespace may follow
DecodeEnd(s, r) ==
    IF ~r.ok THEN r
    ELSE LET e == SkipWs(s, r.end) IN
      IF e <= Len(s) THEN JErr("Extra data", e) ELSE r

\* JSONDecoder.decode
json_decode(s) == DecodeEnd(s, scan_once(s, SkipWs(s, 1)))

\* str(JSONDecodeError(msg, s, pos)): "msg: line L column C (char pos)"
ErrText(s, msg, i) ==
    LET pos == i - 1
        nl == RFindFrom(s, "\n", IF pos <= Len(s) THEN pos ELSE Len(s))
        lineno == Cardinality({k \in 1..pos : k <= Len(s) /\ s[k] = "\n"}) + 1
        colno == pos - nl + 1
    IN msg \o ": line " \o ToString(lineno) \o " column " \o ToString(colno)
         \o " (char " \o ToString(pos) \o ")"

\* what json.loads(s) gives when decode gave r
LoadsResult(s, r) ==
    IF r.ok THEN [ok |-> TRUE, v |-> r.v, err |-> ""]
    ELSE [ok |-> FALSE, v |-> None, err |-> ErrText(s, r.msg, r.end)]

\* json.loads(s): [ok, v] and, when it raises, err = str(e)
json_loads(s) == LoadsResult(s, json_decode(s))

-----------------------------------------------------------------------------
(* ast.literal_eval: the Python expressions that can be written over Char. *)
(* No name over Letter is True, False or None and no operator can be       *)
(* written, so an expression is a number, a string (with an optional u or  *)
(* r prefix; an f-string is no literal), a list, set or dict display, or a *)
(* top-level tuple without parentheses.  A result is [ok, v, end];         *)
(* ok = FALSE stands for any exception (SyntaxError, ValueError,           *)
(* TypeError).                                                             *)

POk(v, end) == [ok |-> TRUE, v |-> v, end |-> end]

PFail == [ok |-> FALSE, v |-> None, end |-> 0]

Quote == {"'", "\""}

RECURSIVE PSkip(_, _, _)
\* the next token's position: blanks, backslash-newline (unless the text
\* ends there) and, inside brackets (depth > 0), newlines separate tokens
PSkip(s, i, depth) ==
    IF i > Len(s) THEN i
    ELSE IF s[i] = " " THEN PSkip(s, i + 1, depth)
    ELSE IF s[i] = "\n" /\ depth > 0 THEN PSkip(s, i + 1, depth)
    ELSE IF s[i] = "\\" /\ i + 2 <= Len(s) /\ s[i + 1] = "\n"
      THEN PSkip(s, i + 2, depth)
    ELSE i

\* a string literal starts at j
IsStrStart(s, j) ==
    /\ j <= Len(s)
    /\ \/ s[j] \in Quote
       \/ s[j] \in {"u", "r"} /\ j + 1 <= Len(s) /\ s[j + 1] \in Quote

IsOctalAt(s, i) == i <= Len(s) /\ s[i] \in {"0", "1", "2", "3", "4", "5", "6", "7"}

RECURSIVE PStrBody(_, _, _, _, _, _)
\* the body of a string literal from j on; qc is its quote character
PStrBody(s, j, qc, triple, israw, acc) ==
    IF j > Len(s) THEN PFail
    ELSE IF s[j] = qc THEN
      IF ~triple THEN POk(acc, j + 1)
      ELSE IF StartsAt(s, <<qc, qc, qc>>, j) THEN POk(acc, j + 3)
      ELSE PStrBody(s, j + 1, qc, triple, israw, Append(acc, qc))
    ELSE IF s[j] = "\n" THEN
      IF triple THEN PStrBody(s, j + 1, qc, triple, israw, Append(acc, "\n"))
      ELSE PFail
    ELSE IF s[j] # "\\"
      THEN PStrBody(s, j + 1, qc, triple, israw, Append(acc, s[j]))
    ELSE IF j + 1 > Len(s) THEN PFail
    ELSE LET n == s[j + 1] IN
      IF israw THEN PStrBody(s, j + 2, qc, triple, israw, acc \o <<"\\", n>>)
      ELSE IF n = "\n" THEN PStrBody(s, j + 2, qc, triple, israw, acc)
      ELSE IF n \in {"\\", "'", "\""}
        THEN PStrBody(s, j + 2, qc, triple, israw, Append(acc, n))
      ELSE IF n \in {"a", "f", "n", "r", "t", "v"} THEN
        LET code == CASE n = "a" -> 7 [] n = "f" -> 12 [] n = "n" -> 10
                      [] n = "r" -> 13 [] n = "t" -> 9 [] n = "v" -> 11
        IN PStrBody(s, j + 2, qc, triple, israw, Append(acc, Chr(code)))
      ELSE IF n = "u" THEN
        LET uni == Hex4At(s, j + 2) IN
        IF uni < 0 THEN PFail
        ELSE PStrBody(s, j + 6, qc, triple, israw, Append(acc, Chr(uni)))
      ELSE IF IsOctalAt(s, j + 1) THEN
        LET k == IF ~IsOctalAt(s, j + 2) THEN j + 1
                 ELSE IF ~IsOctalAt(s, j + 3) THEN j + 2 ELSE j + 3
            code == IF k = j + 1 THEN Ord(s[j + 1]) - 48
                    ELSE IF k = j + 2
                      THEN (Ord(s[j + 1]) - 48) * 8 + (Ord(s[j + 2]) - 48)
                    ELSE (Ord(s[j + 1]) - 48) * 64 + (Ord(s[j + 2]) - 48) * 8
                           + (Ord(s[j + 3]) - 48)
        IN PStrBody(s, k + 1, qc, triple, israw, Append(acc, Chr(code)))
      ELSE PStrBody(s, j + 2, qc, triple, israw, acc \o <<"\\", n>>)

\* one string literal at i (IsStrStart(s, i))
PString(s, i) ==
    LET q == IF s[i] \in Quote THEN i ELSE i + 1
        triple == StartsAt(s, <<s[q], s[q], s[q]>>, q)
    IN PStrBody(s, IF triple THEN q + 3 ELSE q + 1, s[q], triple,
                s[i] = "r", <<>>)

RECURSIVE PStrings(_, _, _, _)
RECURSIVE PStringsNext(_, _, _, _)
\* adjacent string literals are concatenated
PStrings(s, i, depth, acc) == PStringsNext(s, depth, acc, PString(s, i))

\* what follows the literal one: another literal or the end of the string
PStringsNext(s, depth, acc, one) ==
    IF ~one.ok THEN PFail
    ELSE LET j == PSkip(s, one.end, depth) IN
      IF IsStrStart(s, j) THEN PStrings(s, j, depth, acc \o one.v)
      ELSE POk(<<"str", acc \o one.v>>, one.end)

\* a decimal integer (no leading zero unless it is all zeros) or a float
\* with an exponent
PNumber(s, i) ==
    LET d == DigitsEnd(s, i)
        hasExp == d <= Len(s) /\ s[d] = "e" /\ IsDigitAt(s, d + 1)
        k == DigitsEnd(s, d + 1)
    IN IF hasExp THEN POk(Num(IntOf(s, i, d - 1), IntOf(s, d + 1, k - 1)), k)
       ELSE IF s[i] = "0" /\ \E x \in i..(d - 1) : s[x] # "0" THEN PFail
       ELSE POk(Num(IntOf(s, i, d - 1), 0), d)

\* a key of a dict or an element of a set must be hashable
Hashable(v) == v[1] \in {"str", "num", "float", "inf"}

RECURSIVE PExpr(_, _, _)
RECURSIVE PList(_, _, _)
RECURSIVE PListNext(_, _, _)
RECURSIVE PDict(_, _, _)
RECURSIVE PDictValue(_, _, _)
RECURSIVE PDictNext(_, _, _, _)
RECURSIVE PSet(_, _, _)
RECURSIVE PSetNext(_, _, _)

\* the items of a list display from i on, up to its "]"
PList(s, i, acc) ==
    IF i > Len(s) THEN PFail
    ELSE IF s[i] = "]" THEN POk(<<"list", acc>>, i + 1)
    ELSE PListNext(s, acc, PExpr(s, i, 1))

\* what follows the item e: a comma or the "]"
PListNext(s, acc, e) ==
    IF ~e.ok THEN PFail
    ELSE LET j == PSkip(s, e.end, 1) IN
      IF j > Len(s) THEN PFail
      ELSE IF s[j] = "," THEN PList(s, PSkip(s, j + 1, 1), Append(acc, e.v))
      ELSE IF s[j] = "]" THEN POk(<<"list", Append(acc, e.v)>>, j + 1)
      ELSE PFail

\* the key: value items of a dict display from i on, up to its "}"
PDict(s, i, d) ==
    IF i > Len(s) THEN PFail
    ELSE IF s[i] = "}" THEN POk(<<"dict", d>>, i + 1)
    ELSE PDictValue(s, d, PExpr(s, i, 1))

\* the item's ":" and value, key being its key
PDictValue(s, d, key) ==
    IF ~key.ok THEN PFail
    ELSE LET c == PSkip(s, key.end, 1) IN
      IF ~(c <= Len(s) /\ s[c] = ":") THEN PFail
      ELSE PDictNext(s, d, key.v, PExpr(s, PSkip(s, c + 1, 1), 1))

\* what follows the item's value val: a comma or the "}"
PDictNext(s, d, k, val) ==
    IF ~val.ok \/ ~Hashable(k) THEN PFail
    ELSE LET j == PSkip(s, val.end, 1)
             d2 == DictPut(d, k, val.v)
         IN
      IF j > Len(s) THEN PFail
      ELSE IF s[j] = "," THEN PDict(s, PSkip(s, j + 1, 1), d2)
      ELSE IF s[j] = "}" THEN POk(<<"dict", d2>>, j + 1)
      ELSE PFail

\* the elements of a set display from i on, up to its "}"
PSet(s, i, elems) ==
    IF i > Len(s) THEN PFail
    ELSE IF s[i] = "}" THEN POk(<<"set", elems>>, i + 1)
    ELSE PSetNext(s, elems, PExpr(s, i, 1))

\* what follows the element e: a comma or the "}"
PSetNext(s, elems, e) ==
    IF ~e.ok \/ ~Hashable(e.v) THEN PFail
    ELSE LET j == PSkip(s, e.end, 1) IN
      IF j > Len(s) THEN PFail
      ELSE IF s[j] = "," THEN PSet(s, PSkip(s, j + 1, 1), elems \cup {e.v})
      ELSE IF s[j] = "}" THEN POk(<<"set", elems \cup {e.v}>>, j + 1)
      ELSE PFail

\* the display whose first item, at j, is first: a ":" after it makes it a
\* dict
PBraceKind(s, j, first) ==
    IF ~first.ok THEN PFail
    ELSE LET c == PSkip(s, first.end, 1) IN
      IF c <= Len(s) /\ s[c] = ":" THEN PDict(s, j, <<>>)
      ELSE PSet(s, j, {})

\* a "{" at i - 1: {} is the empty dict; the first item decides dict or set
PBrace(s, i) ==
    LET j == PSkip(s, i, 1) IN
    IF j > Len(s) THEN PFail
    ELSE IF s[j] = "}" THEN POk(<<"dict", <<>>>>, j + 1)
    ELSE PBraceKind(s, j, PExpr(s, j, 1))

\* the expression whose first token is at i
PExpr(s, i, depth) ==
    IF i > Len(s) THEN PFail
    ELSE IF s[i] = "{" THEN PBrace(s, i + 1)
    ELSE IF s[i] = "[" THEN PList(s, PSkip(s, i + 1, 1), <<>>)
    ELSE IF IsStrStart(s, i) THEN PStrings(s, i, depth, <<>>)
    ELSE IF s[i] \in Digit THEN PNumber(s, i)
    ELSE PFail

RECURSIVE PTuple(_, _, _)
RECURSIVE PTupleNext(_, _, _)
\* the rest of a top-level tuple after a comma; i is the next token
PTuple(s, i, acc) ==
    IF i > Len(s) \/ s[i] = "\n" THEN POk(<<"tuple", acc>>, i)
    ELSE PTupleNext(s, acc, PExpr(s, i, 0))

\* what follows the element e: a comma or the end of the tuple
PTupleNext(s, acc, e) ==
    IF ~e.ok THEN PFail
    ELSE LET j == PSkip(s, e.end, 0) IN
      IF j <= Len(s) /\ s[j] = ","
      THEN PTuple(s, PSkip(s, j + 1, 0), Append(acc, e.v))
      ELSE POk(<<"tuple", Append(acc, e.v)>>, j)

RECURSIVE SkipBlanks(_, _)
\* str.lstrip(" \t")
SkipBlanks(s, i) == IF i <= Len(s) /\ s[i] = " " THEN SkipBlanks(s, i + 1) ELSE i

RECURSIVE FirstLine(_, _, _)
\* the tokenizer at the beginning of a line: col counts the blanks, also
\* across backslash-newline; a line that ends here is blank; the first
\* token must not be indented.  The token's position, or 0.
FirstLine(s, i, col) ==
    IF i > Len(s) THEN 0
    ELSE IF s[i] = " " THEN FirstLine(s, i + 1, col + 1)
    ELSE IF s[i] = "\\" /\ i + 2 <= Len(s) /\ s[i + 1] = "\n"
      THEN FirstLine(s, i + 2, col)
    ELSE IF s[i] = "\n" THEN FirstLine(s, i + 1, 0)
    ELSE IF col = 0 THEN i ELSE 0

RECURSIVE BlankLines(_, _, _)
\* after the expression's line only blank lines may follow, and the text
\* may not end inside an indentation
BlankLines(s, i, col) ==
    IF i > Len(s) THEN col = 0
    ELSE IF s[i] = " " THEN BlankLines(s, i + 1, col + 1)
    ELSE IF s[i] = "\\" /\ i + 2 <= Len(s) /\ s[i + 1] = "\n"
      THEN BlankLines(s, i + 2, col)
    ELSE IF s[i] = "\n" THEN BlankLines(s, i + 1, 0)
    ELSE FALSE

\* the value r read from the text: nothing but blank lines may follow it
EvalEnd(s, r) ==
    IF /\ r.ok
       /\ \/ r.end > Len(s)
          \/ s[r.end] = "\n" /\ BlankLines(s, r.end + 1, 0)
    THEN [ok |-> TRUE, v |-> r.v]
    ELSE [ok |-> FALSE, v |-> None]

\* the expression e, or the tuple it begins when a comma follows it
EvalTuple(s, e) ==
    IF ~e.ok THEN PFail
    ELSE LET j == PSkip(s, e.end, 0) IN
      IF j <= Len(s) /\ s[j] = ","
      THEN PTuple(s, PSkip(s, j + 1, 0), <<e.v>>)
      ELSE POk(e.v, j)

\* ast.literal_eval(s): [ok, v]
literal_eval(s) ==
    LET start == FirstLine(s, SkipBlanks(s, 1), 0) IN
    IF start = 0 THEN [ok |-> FALSE, v |-> None]
    ELSE EvalEnd(s, EvalTuple(s, PExpr(s, start, 0)))

\* LiteralText without the call of repair_json
LiteralTextAsGiven(text) == text

\* line 176, s = repair_json(raw): the text try_literal_eval_object parses
LiteralText(text) == repair_json(text)

\* LiteralOutcome without the try/except around ast.literal_eval
LiteralOutcomeUncaught(r) ==
    IF r.ok THEN [raises |-> FALSE, v |-> r.v]
    ELSE [raises |-> TRUE, v |-> None]

\* the outcome of try_literal_eval_object when literal_eval gave r
LiteralOutcome(r) ==
    IF r.ok THEN [raises |-> FALSE, v |-> r.v]
    ELSE [raises |-> FALSE, v |-> None]

\* try_literal_eval_object: the outcome of the call.  The try/except
\* turns every exception of literal_eval into a returned None, so the call
\* itself never raises.
try_literal_eval_object(text) ==
    IF text = <<>> THEN [raises |-> FALSE, v |-> None]
    ELSE LiteralOutcome(literal_eval(LiteralText(text)))

-----------------------------------------------------------------------------
(* The model's raw output: the inputs of safe_json_loads *)

MaxLen == 4

MaxCut == 3

SmallAlpha == {"{", "}", "[", "]", "\"", "1", ":", ","}

RECURSIVE TextsUpTo(_, _)
\* every text over A of length <= n
TextsUpTo(A, n) ==
    IF n = 0 THEN {<<>>}
    ELSE LET shorter == TextsUpTo(A, n - 1) IN
         shorter \cup {Append(t, c) : t \in shorter, c \in A}

\* well-formed objects, as json.dumps or a model writes them
ValidObjs ==
    \* {}
    { <<"{", "}">>,
    \* {"a":1}
      <<"{", "\"", "a", "\"", ":", "1", "}">>,
    \* {"a": [1,2]}
      <<"{", "\"", "a", "\"", ":", " ", "[", "1", ",", "2", "]", "}">>,
    \* {"a":[{"t":1}]}
      <<"{", "\"", "a", "\"", ":", "[", "{", "\"", "t", "\"", ":", "1", "}", "]", "}">>,
    \* {"a":{"e":[]}}
      <<"{", "\"", "a", "\"", ":", "{", "\"", "e", "\"", ":", "[", "]", "}", "}">>,
    \* {"s":"{"}
      <<"{", "\"", "s", "\"", ":", "\"", "{", "\"", "}">>,
    \* {"a":"\"}"}
      <<"{", "\"", "a", "\"", ":", "\"", "\\", "\"", "}", "\"", "}">>,
    \* {"t":true,"n":null}
      <<"{", "\"", "t", "\"", ":", "t", "r", "u", "e", ",", "\"", "n", "\"", ":", "n", "u", "l", "l", "}">>,
    \* {"value":"a"}
      <<"{", "\"", "v", "a", "l", "u", "e", "\"", ":", "\"", "a", "\"", "}">>,
    \* {"a":[1 ]}
      <<"{", "\"", "a", "\"", ":", "[", "1", " ", "]", "}">>,
    \* {"a":["]"]}
      <<"{", "\"", "a", "\"", ":", "[", "\"", "]", "\"", "]", "}">> }

\* well-formed documents that are no object
OtherDocs ==
    \* null
    { <<"n", "u", "l", "l">>,
    \* true
      <<"t", "r", "u", "e">>,
    \* 10
      <<"1", "0">>,
    \* 1e1
      <<"1", "e", "1">>,
    \* "a"
      <<"\"", "a", "\"">>,
    \* "a{"
      <<"\"", "a", "{", "\"">>,
    \* [1,2]
      <<"[", "1", ",", "2", "]">>,
    \* [{"a":1}]
      <<"[", "{", "\"", "a", "\"", ":", "1", "}", "]">>,
    \* false
      <<"f", "a", "l", "s", "e">> }

\* malformed model output
Malformed ==
    \* {'a':1}
    { <<"{", "'", "a", "'", ":", "1", "}">>,
    \* {"s": ['a', 'e's']}
      <<"{", "\"", "s", "\"", ":", " ", "[", "'", "a", "'", ",", " ", "'", "e", "'", "s", "'", "]", "}">>,
    \* {"value": "a<newline>t"}
      <<"{", "\"", "v", "a", "l", "u", "e", "\"", ":", " ", "\"", "a", "\n", "t", "\"", "}">>,
    \* {"a":1,}
      <<"{", "\"", "a", "\"", ":", "1", ",", "}">>,
    \* {1:2}
      <<"{", "1", ":", "2", "}">>,
    \* {1}
      <<"{", "1", "}">>,
    \* {"a": tru}
      <<"{", "\"", "a", "\"", ":", " ", "t", "r", "u", "}">>,
    \* a fat rat
      <<"a", " ", "f", "a", "t", " ", "r", "a", "t">>,
    \* 'a' 'e'
      <<"'", "a", "'", " ", "'", "e", "'">>,
    \* {"a":'\u00e1'}
      <<"{", "\"", "a", "\"", ":", "'", "\\", "u", "0", "0", "e", "1", "'", "}">>,
    \* 1,2
      <<"1", ",", "2">>,
    \* {"value": "a"t"<newline>}
      <<"{", "\"", "v", "a", "l", "u", "e", "\"", ":", " ", "\"", "a", "\"", "t", "\"", "\n", "}">>,
    \* {"a":r'\a'}
      <<"{", "\"", "a", "\"", ":", "r", "'", "\\", "a", "'", "}">>,
    \* nul
      <<"n", "u", "l">> }

\* text before the document
Prose ==
    \* (empty)
    { <<>>,
    \* sure: 
      <<"s", "u", "r", "e", ":", " ">>,
    \* use {a}: 
      <<"u", "s", "e", " ", "{", "a", "}", ":", " ">>,
    \* a "{" 
      <<"a", " ", "\"", "{", "\"", " ">> }

\* text after the document
Trail ==
    \* (empty)
    { <<>>,
    \*  ta
      <<" ", "t", "a">>,
    \* }
      <<"}">>,
    \* <newline>{"e":1}
      <<"\n", "{", "\"", "e", "\"", ":", "1", "}">> }

\* the text before a bare time token
TimeLeft ==
    \* {"t": 
    { <<"{", "\"", "t", "\"", ":", " ">>,
    \* {"t":
      <<"{", "\"", "t", "\"", ":">>,
    \* {"a":[
      <<"{", "\"", "a", "\"", ":", "[">>,
    \* {"a":"{","t":
      <<"{", "\"", "a", "\"", ":", "\"", "{", "\"", ",", "\"", "t", "\"", ":">>,
    \* {"a":": 1:30,","t":
      <<"{", "\"", "a", "\"", ":", "\"", ":", " ", "1", ":", "3", "0", ",", "\"", ",", "\"", "t", "\"", ":">>,
    \* {"a":[1,
      <<"{", "\"", "a", "\"", ":", "[", "1", ",">>,
    \* {"a":{"t":<newline>
      <<"{", "\"", "a", "\"", ":", "{", "\"", "t", "\"", ":", "\n">>,
    \* {"a":"}","t": 
      <<"{", "\"", "a", "\"", ":", "\"", "}", "\"", ",", "\"", "t", "\"", ":", " ">> }

\* the text after a bare time token
TimeRight ==
    \* , "a": true}
    { <<",", " ", "\"", "a", "\"", ":", " ", "t", "r", "u", "e", "}">>,
    \* }
      <<"}">>,
    \* ]}
      <<"]", "}">>,
    \*  }
      <<" ", "}">>,
    \*  ,2]}
      <<" ", ",", "2", "]", "}">>,
    \* <newline>}}
      <<"\n", "}", "}">>,
    \* ,"e":[1]}
      <<",", "\"", "e", "\"", ":", "[", "1", "]", "}">> }

\* bare H:MM and HH:MM tokens
TimeTok ==
    \* 7:30
    { <<"7", ":", "3", "0">>,
    \* 12:05
      <<"1", "2", ":", "0", "5">> }


Closer == {"]", "}"}

Input(k, p, d, t, i) ==
    [kind |-> k, prose |-> p, doc |-> d, trailing |-> t, intended |-> i]

\* a document, possibly inside prose
PlainInputs ==
    {Input("plain", p, d, t, d) :
        p \in Prose, d \in ValidObjs \cup OtherDocs \cup Malformed, t \in Trail}
      \cup {Input("plain", <<>>, d, <<>>, d) : d \in TextsUpTo(SmallAlpha, MaxLen)}

\* a well-formed object that lost 1..MaxCut trailing closing delimiters
CutInputs ==
    {Input("cut", <<>>, SubSeq(c[1], 1, Len(c[1]) - c[2]), <<>>, c[1]) :
        c \in {x \in ValidObjs \X (1..MaxCut) :
                  /\ Len(x[1]) > x[2]
                  /\ \A k \in (Len(x[1]) - x[2] + 1)..Len(x[1]) :
                        x[1][k] \in Closer}}

\* a well-formed object in which one string value "H:MM" lost its quotes
TimeInputs ==
    {Input("time", <<>>, l \o tok \o r, <<>>,
           l \o <<"\"">> \o tok \o <<"\"">> \o r) :
        l \in TimeLeft, tok \in TimeTok, r \in TimeRight}

Inputs == PlainInputs \cup CutInputs \cup TimeInputs

-----------------------------------------------------------------------------
(* safe_json_loads, one action per stage *)

MaxRequests == 2

Requests == 1..MaxRequests

pipeVars == <<kind, prose, doc, trailing, intended, raw, pc, raw0, fixed1,
              fixed2, fixed3, fixed4, exc, litText, ret, trace>>

kitVars == <<store, nextId, rpc, created_at, keep, made, raised>>

vars == <<pipeVars, kitVars>>

\* the exception a failed json.loads raises, as str(e)
ErrOf(p) == IF p.ok THEN None ELSE <<"msg", p.err>>

\* Outcome without the return: the stages go on after a successful parse
OutcomeFallsThrough(stage, cand, nextpc, p) ==
    /\ trace' = Append(trace, [stage |-> stage, ok |-> p.ok, err |-> ErrOf(p)])
    /\ ret' = IF p.ok THEN <<p.v, cand, None>> ELSE ret
    /\ pc' = nextpc

\* return json.loads(cand), cand, None, or the except branch, p being what
\* json.loads(cand) gave
Outcome(stage, cand, nextpc, p) ==
    /\ trace' = Append(trace, [stage |-> stage, ok |-> p.ok, err |-> ErrOf(p)])
    /\ IF p.ok THEN ret' = <<p.v, cand, None>> /\ pc' = "done"
       ELSE ret' = ret /\ pc' = nextpc

\* try: return json.loads(cand), cand, None / except Exception: go on
Attempt(stage, cand, nextpc) == Outcome(stage, cand, nextpc, json_loads(cand))

\* lines 245-254: the empty check, the Extractor, the direct parse
Extract ==
    /\ pc = "start"
    /\ IF raw = <<>>
       THEN /\ ret' = <<None, raw, <<"msg", "Empty response">>>>
            /\ pc' = "done"
            /\ UNCHANGED <<raw0, trace>>
       ELSE /\ raw0' = extract_first_json_object(raw)
            /\ Attempt("extract", raw0', "balance")
    /\ UNCHANGED <<kind, prose, doc, trailing, intended, raw, fixed1, fixed2,
                   fixed3, fixed4, exc, litText, kitVars>>

\* lines 256-261
Balance ==
    /\ pc = "balance"
    /\ fixed1' = repair_json(raw0)
    /\ Attempt("balance", fixed1', "times")
    /\ UNCHANGED <<kind, prose, doc, trailing, intended, raw, raw0, fixed2,
                   fixed3, fixed4, exc, litText, kitVars>>

\* lines 263-268
Times ==
    /\ pc = "times"
    /\ fixed2' = repair_json_times(fixed1)
    /\ Attempt("times", fixed2', "quotes")
    /\ UNCHANGED <<kind, prose, doc, trailing, intended, raw, raw0, fixed1,
                   fixed3, fixed4, exc, litText, kitVars>>

\* lines 270-275
Quotes ==
    /\ pc = "quotes"
    /\ fixed3' = fix_single_quotes_in_list(fixed2)
    /\ Attempt("quotes", fixed3', "multiline")
    /\ UNCHANGED <<kind, prose, doc, trailing, intended, raw, raw0, fixed1,
                   fixed2, fixed4, exc, litText, kitVars>>

\* lines 277-281: the last strict parse; its exception e is kept
Multiline ==
    /\ pc = "multiline"
    /\ fixed4' = repair_multiline_value_string(fixed3)
    /\ Attempt("multiline", fixed4', "literal")
    /\ exc' = trace'[Len(trace')].err
    /\ UNCHANGED <<kind, prose, doc, trailing, intended, raw, raw0, fixed1,
                   fixed2, fixed3, litText, kitVars>>

\* LiteralReturn reporting the fallback's own failure
LiteralReturnOwnError(o) ==
    IF o.raises
    THEN /\ pc' = "raised"
         /\ UNCHANGED <<ret, trace>>
    ELSE /\ trace' = Append(trace, [stage |-> "literal", ok |-> o.v # None,
                                    err |-> IF o.v # None THEN None
                                            ELSE <<"exc", "ast.literal_eval">>])
         /\ ret' = IF o.v # None THEN <<o.v, fixed4, None>>
                   ELSE <<None, fixed4, <<"exc", "ast.literal_eval">>>>
         /\ pc' = "done"

\* lines 283-286: what safe_json_loads returns when the fallback gave o
LiteralReturn(o) ==
    IF o.raises
    THEN /\ pc' = "raised"
         /\ UNCHANGED <<ret, trace>>
    ELSE /\ trace' = Append(trace, [stage |-> "literal", ok |-> o.v # None,
                                    err |-> IF o.v # None THEN None
                                            ELSE <<"exc", "ast.literal_eval">>])
         /\ ret' = IF o.v # None THEN <<o.v, fixed4, None>>
                   ELSE <<None, fixed4, exc>>
         /\ pc' = "done"

\* lines 282-286, inside the except block: an exception here would leave
\* safe_json_loads
Literal ==
    /\ pc = "literal"
    /\ LiteralReturn(try_literal_eval_object(raw0))
    /\ litText' = LiteralText(raw0)
    /\ UNCHANGED <<kind, prose, doc, trailing, intended, raw, raw0, fixed1,
                   fixed2, fixed3, fixed4, exc, kitVars>>

KitIdle ==
    /\ store = {}
    /\ nextId = 1
    /\ rpc = [r \in Requests |-> "idle"]
    /\ created_at = [r \in Requests |-> 0]
    /\ keep = [r \in Requests |-> {}]
    /\ made = {}
    /\ raised = FALSE

Init ==
    /\ \E inp \in Inputs :
         /\ kind = inp.kind
         /\ prose = inp.prose
         /\ doc = inp.doc
         /\ trailing = inp.trailing
         /\ intended = inp.intended
         /\ raw = inp.prose \o inp.doc \o inp.trailing
    /\ pc = "start"
    /\ raw0 = <<>>
    /\ fixed1 = <<>>
    /\ fixed2 = <<>>
    /\ fixed3 = <<>>
    /\ fixed4 = <<>>
    /\ exc = None
    /\ litText = <<>>
    /\ ret = <<>>
    /\ trace = <<>>
    /\ KitIdle

Next == Extract \/ Balance \/ Times \/ Quotes \/ Multiline \/ Literal

Spec == Init /\ [][Next]_vars

-----------------------------------------------------------------------------
(* generate_kit, lines 429-442: the kit store.  A row of the table is its  *)
(* id and its created_at.  Requests run concurrently, each a worker's      *)
(* sequence of queries; a query that raises ends the block (lines 440-442).*)
(* created_at is auto_now_add: the worker reads the clock before its       *)
(* INSERT, and the clock is the machine's (two reads can give the same     *)
(* time, a later read an earlier time).                                    *)

Keep == 5

MaxKits == 6

MaxTime == 2

\* the values of timezone.now()
Now == 1..MaxTime

\* the ids of the rows K
Ids(K) == {x.id : x \in K}

\* ProductionKit.objects.values_list("id", flat=True)[:n] over the rows S,
\* under Meta.ordering = ["-created_at"]: the results the database can
\* give, the order among rows of equal created_at being its own
Newest(S, n) ==
    {K \in SUBSET S :
       /\ Cardinality(K) = (IF Cardinality(S) < n THEN Cardinality(S) ELSE n)
       /\ \A x \in K : \A y \in S \ K : y.created_at <= x.created_at}

\* models.py line 8, auto_now_add: pre_save sets created_at = timezone.now()
\* on the way into ProductionKit.objects.create(...)
TakeTime(r) ==
    /\ rpc[r] = "idle"
    /\ nextId <= MaxKits
    /\ \E t \in Now : created_at' = [created_at EXCEPT ![r] = t]
    /\ rpc' = [rpc EXCEPT ![r] = "stamped"]
    /\ UNCHANGED <<store, nextId, keep, made, raised, pipeVars>>

\* line 431: the INSERT of ProductionKit.objects.create(...); the table
\* gives the id
Create(r) ==
    /\ rpc[r] = "stamped"
    /\ store' = store \cup {[id |-> nextId, created_at |-> created_at[r]]}
    /\ made' = made \cup {[id |-> nextId, created_at |-> created_at[r]]}
    /\ nextId' = nextId + 1
    /\ created_at' = [created_at EXCEPT ![r] = 0]
    /\ rpc' = [rpc EXCEPT ![r] = "created"]
    /\ UNCHANGED <<keep, raised, pipeVars>>

\* line 438: ids_to_keep = list(...[:5])
ReadIdsToKeep(r) ==
    /\ rpc[r] = "created"
    /\ \E K \in Newest(store, Keep) : keep' = [keep EXCEPT ![r] = Ids(K)]
    /\ rpc' = [rpc EXCEPT ![r] = "read"]
    /\ UNCHANGED <<store, nextId, created_at, made, raised, pipeVars>>

\* line 439: ProductionKit.objects.exclude(id__in=ids_to_keep).delete();
\* the request is then answered
Delete(r) ==
    /\ rpc[r] = "read"
    /\ store' = {x \in store : x.id \in keep[r]}
    /\ keep' = [keep EXCEPT ![r] = {}]
    /\ rpc' = [rpc EXCEPT ![r] = "idle"]
    /\ UNCHANGED <<nextId, created_at, made, raised, pipeVars>>

\* lines 440-442, except Exception: pass: the INSERT, the query of line 438
\* or the DELETE raised; the table stays as it is and the request is answered
Except(r) ==
    /\ rpc[r] \in {"stamped", "created", "read"}
    /\ created_at' = [created_at EXCEPT ![r] = 0]
    /\ keep' = [keep EXCEPT ![r] = {}]
    /\ rpc' = [rpc EXCEPT ![r] = "idle"]
    /\ raised' = TRUE
    /\ UNCHANGED <<store, nextId, made, pipeVars>>

\* the parse of the request being served is over
KitInit ==
    /\ kind = "plain" /\ prose = <<>> /\ doc = <<>> /\ trailing = <<>>
    /\ intended = <<>> /\ raw = <<>>
    /\ pc = "done"
    /\ raw0 = <<>> /\ fixed1 = <<>> /\ fixed2 = <<>> /\ fixed3 = <<>>
    /\ fixed4 = <<>>
    /\ exc = None
    /\ litText = <<>>
    /\ ret = <<>>
    /\ trace = <<>>
    /\ KitIdle

KitNext ==
    \E r \in Requests :
        TakeTime(r) \/ Create(r) \/ ReadIdsToKeep(r) \/ Delete(r) \/ Except(r)

KitSpec == KitInit /\ [][KitNext]_vars

-----------------------------------------------------------------------------
(* Properties of safe_json_loads *)

StageOrder ==
    <<"extract", "balance", "times", "quotes", "multiline", "literal">>

\* pc while stage i is the next to run
StagePc == <<"start", "balance", "times", "quotes", "multiline", "literal">>

\* the candidate stage i parsed strictly
Cand(i) == <<raw0, fixed1, fixed2, fixed3, fixed4>>[i]

\* every stage ran and none gave a value
Exhausted == pc = "done" /\ Len(trace) = 6 /\ ~trace[6].ok

\* C1: the stages run in the order extract, balance, times, quotes,
\* multiline, literal; each strict parse is json.loads of that stage's
\* candidate; a strict parse that succeeds is the last thing executed: it
\* ends the invocation with that stage's value and candidate, and no later
\* candidate is ever computed.
C1_StageOrder ==
    /\ Len(trace) <= 6
    /\ \A i \in 1..Len(trace) : trace[i].stage = StageOrder[i]
    /\ \A i \in 1..Len(trace) :
         i <= 5 =>
           /\ trace[i].ok = json_loads(Cand(i)).ok
           /\ trace[i].ok =>
                /\ i = Len(trace)
                /\ pc = "done"
                /\ ret = <<json_loads(Cand(i)).v, Cand(i), None>>
                /\ \A j \in (i + 1)..5 : Cand(j) = <<>>
    /\ \A i \in 1..5 : i <= Len(trace) => Cand(i) # <<>>

\* a strict parse succeeded at the third stage, after two failures
C1_Witness ==
    /\ pc = "done"
    /\ Len(trace) = 3
    /\ ~trace[1].ok /\ ~trace[2].ok /\ trace[3].ok

\* C2: safe_json_loads never raises; a stage that fails hands over to the
\* next stage; every return is a triple; the empty input returns
\* (None, raw, "Empty response"); when every stage failed the value is None
\* and the error is a non-empty message.
C2_NeverRaises ==
    /\ pc # "raised"
    /\ pc # "done" => /\ Len(trace) < 6
                      /\ pc = StagePc[Len(trace) + 1]
                      /\ \A i \in 1..Len(trace) : ~trace[i].ok
    /\ pc = "done" => Len(ret) = 3
    /\ (pc = "done" /\ raw = <<>>) =>
         ret = <<None, raw, <<"msg", "Empty response">>>>
    /\ Exhausted =>
         /\ ret[1] = None
         /\ ret[3] # None
         /\ ret[3][1] = "msg"
         /\ ret[3][2] # ""

\* an input without any brace went through every stage and failed
C2_Witness ==
    /\ Exhausted
    /\ Find(raw, "{") = 0
    /\ prose # <<>>

\* C3: on return exactly one of value and error is set
C3_ExactlyOne ==
    pc = "done" => ((ret[1] # None) <=> (ret[3] = None))

\* a well-formed JSON text
Valid(d) == json_loads(d).ok

\* the text of a well-formed JSON object, from its "{" to its "}"
IsObject(d) == d # <<>> /\ d[1] = "{" /\ d[Len(d)] = "}" /\ Valid(d)

\* the input is one document and nothing else
Bare == kind = "plain" /\ prose = <<>> /\ trailing = <<>>

\* C4 as stated: every well-formed document alone on the input is returned
\* with the value of its direct parse, at the first parse attempt
C4_AnyDocument ==
    (Bare /\ Valid(doc) /\ pc = "done") =>
        /\ Len(trace) = 1
        /\ trace[1].ok
        /\ ret[1] = json_loads(doc).v

\* C4: a well-formed document alone on the input that is an object, or
\* whose text holds no "{", is returned with the value of its direct parse
\* at the first parse attempt, on the Extractor's candidate and before any
\* repair stage runs
C4_ValidDocument ==
    (Bare /\ Valid(doc) /\ (IsObject(doc) \/ Find(doc, "{") = 0)
          /\ pc = "done") =>
        /\ Len(trace) = 1
        /\ trace[1].ok
        /\ ret = <<json_loads(doc).v, raw0, None>>
        /\ fixed1 = <<>>

\* a well-formed object holding a brace inside a string was returned
C4_Witness ==
    /\ Bare /\ IsObject(doc) /\ pc = "done"
    /\ Count(doc, "{") + Count(doc, "}") > 2
    /\ ret[1] = json_loads(doc).v

\* C5 as stated: whatever the prose and the trailing text, the Extractor
\* returns the object's text and the object's value is returned
C5_AnyProse ==
    (kind = "plain" /\ IsObject(doc) /\ pc # "start") =>
        /\ raw0 = doc
        /\ pc = "done"
        /\ ret = <<json_loads(doc).v, doc, None>>

\* C5: when the prose holds no "{", the Extractor returns exactly the
\* object's text, whatever follows the object, and safe_json_loads returns
\* the object's value
C5_ProseObject ==
    (kind = "plain" /\ IsObject(doc) /\ Find(prose, "{") = 0
          /\ pc # "start") =>
        /\ raw0 = doc
        /\ pc = "done"
        /\ ret = <<json_loads(doc).v, doc, None>>

\* an object with a brace inside a string, between prose and trailing text
\* that holds a brace, was extracted and returned
C5_Witness ==
    /\ kind = "plain" /\ IsObject(doc)
    /\ prose # <<>> /\ Find(prose, "{") = 0
    /\ Find(trailing, "}") # 0
    /\ Count(doc, "{") > 1
    /\ pc = "done" /\ raw0 = doc

\* C6 as stated: on exhaustion the error is that of the last parse attempt
\* made, which is the literal fallback's
C6_LastAttempt ==
    Exhausted =>
        /\ ret[3] = trace[Len(trace)].err
        /\ ret[2] = fixed4

\* C6: on exhaustion the error is the message of the last strict parse,
\* json.loads of the multiline-fixed candidate; the literal fallback's own
\* failure is not reported; the candidate returned is the multiline-fixed
\* one
C6_LastStrictError ==
    Exhausted =>
        /\ fixed4 = repair_multiline_value_string(fixed3)
        /\ trace[5].err = ErrOf(json_loads(fixed4))
        /\ ret = <<None, fixed4, trace[5].err>>
        /\ ret[3] # trace[6].err

\* every stage failed on an input that the repairs changed
C6_Witness ==
    /\ Exhausted
    /\ fixed4 # raw
    /\ trace[1].err # trace[5].err

\* the closing delimiters the input lacks
Missing == SubSeq(intended, Len(doc) + 1, Len(intended))

\* as many "[" as "]" and as many "{" as "}", those inside strings counted
Balanced(d) ==
    /\ Count(d, "[") = Count(d, "]")
    /\ Count(d, "{") = Count(d, "}")

\* the closing delimiters repair_json is said to append to the stripped
\* text d: count("[") - count("]") brackets, then count("{") - count("}")
\* braces, none where the difference is not positive; characters inside
\* strings are counted
Appended(d) ==
    Rep("]", Count(d, "[") - Count(d, "]"))
      \o Rep("}", Count(d, "{") - Count(d, "}"))

\* d without what follows its last "}"
DropAfterLast(d) ==
    IF RFind(d, "}") = 0 THEN d ELSE SubSeq(d, 1, RFind(d, "}"))

\* what repair_json is said to make of the stripped text d
Closed(d) == DropAfterLast(d \o Appended(d))

\* the delimiters the counts give are the ones the input lacks
Restorable == Appended(Strip(doc)) = Missing

\* C8 as stated: a well-formed object that lacks only trailing closing
\* delimiters is completed by the balancer and its value returned at the
\* balancing stage
C8_AnyCut ==
    (kind = "cut" /\ pc = "done") =>
        /\ Len(trace) = 2
        /\ trace[2].ok
        /\ ret[1] = json_loads(intended).v

\* C8: for a well-formed object that lacks only trailing closing
\* delimiters, repair_json appends count("[") - count("]") brackets and then
\* count("{") - count("}") braces to the stripped input and drops what
\* follows the last "}".  When the appended delimiters are exactly the
\* missing ones, safe_json_loads returns the complete document's value at
\* the balancing stage; when they are not, the balancing stage's parse fails
C8_CountedCut ==
    (kind = "cut" /\ pc = "done") =>
        /\ raw0 = doc
        /\ fixed1 = Closed(Strip(doc))
        /\ Restorable =>
             /\ fixed1 = Strip(doc) \o Missing
             /\ Len(trace) = 2
             /\ trace[2].ok
             /\ ret = <<json_loads(intended).v, fixed1, None>>
        /\ ~Restorable => ~trace[2].ok

\* an object that lacked a bracket and a brace was completed and returned
C8_Witness ==
    /\ kind = "cut" /\ pc = "done"
    /\ Restorable
    /\ Find(Missing, "]") # 0 /\ Find(Missing, "}") # 0
    /\ trace[2].ok

\* where _TIME_TOKEN_RE matches in s
TimeMatches(s) == {i \in 1..Len(s) : TimeMatch(s, i).end # 0}

\* the position of the bare token: the first difference from the intended
\* text, which holds the token in quotes
TokenAt == CHOOSE p \in 1..Len(doc) :
               /\ doc[p] # intended[p]
               /\ \A q \in 1..(p - 1) : doc[q] = intended[q]

C10_AlwaysBrace ==
    (Len(trace) >= 1 /\ ~trace[1].ok) => (raw0 # <<>> /\ raw0[1] = "{")

\* C10: for an input that holds a "{" the candidate handed to the later
\* stages starts with "{"; an input without one is handed on unchanged
C10_BraceWhenPresent ==
    (Len(trace) >= 1 /\ ~trace[1].ok) =>
        IF Find(raw, "{") # 0 THEN raw0 # <<>> /\ raw0[1] = "{"
        ELSE raw0 = raw

\* prose was cut off and the candidate went on to the balancer
C10_Witness ==
    /\ Len(trace) >= 2
    /\ Find(raw, "{") > 1
    /\ raw0[1] = "{"

\* C11 as stated: the literal fallback parses the Extractor's candidate,
\* character for character
C11_ExtractorText ==
    Len(trace) = 6 => litText = raw0

\* C11: the literal fallback is handed the Extractor's candidate and parses
\* its balanced form repair_json(raw0), which is the balancing stage's
\* candidate; no scalar, quote or multiline fix is applied to it; the
\* fallback's outcome is that of ast.literal_eval on this text
C11_BalancedText ==
    /\ Len(trace) < 6 => litText = <<>>
    /\ Len(trace) = 6 =>
         /\ litText = repair_json(raw0)
         /\ litText = fixed1
         /\ trace[6].ok = literal_eval(fixed1).ok
         /\ trace[6].ok => ret = <<literal_eval(fixed1).v, fixed4, None>>

\* the fallback gave a value that the Extractor's candidate does not have:
\* the text it parsed is the balanced one
C11_Witness ==
    /\ Len(trace) = 6 /\ trace[6].ok
    /\ litText # raw0
    /\ ~literal_eval(raw0).ok

-----------------------------------------------------------------------------
(* Properties of the kit store *)

\* no request is inside its persistence block
Quiet == \A r \in Requests : rpc[r] = "idle"

\* C7: once all requests have completed, none of their queries having
\* raised, the store holds exactly the min(Keep, n) most recently created of
\* the n kits created (most recent by created_at, any of the rows of equal
\* created_at)
C7_NewestKept ==
    Quiet /\ ~raised => store \in Newest(made, Keep)

=============================================================================
